---- MODULE Spec2Model ----
(***************************************************************************)
(* Model of the MSSQL MCP server (src/src/server.py) and of the simplified *)
(* server (src/src/simplified_server.py): the call_tool dispatcher, the    *)
(* statement-prefix checks of the handlers, the connection / transaction   *)
(* steps each handler performs around its SQL, and the text the handlers   *)
(* build from the rows they fetch.                                         *)
(*                                                                         *)
(* SQL text and result text are sequences of one-character strings, so     *)
(* that strip(), upper(), startswith() and ",".join() are computed as      *)
(* Python computes them.                                                   *)
(*                                                                         *)
(* The database is one table T with its committed rows (db), the set of    *)
(* server views the login may not read (denied), the connection objects    *)
(* pyodbc.connect has created so far (conns) and the results a procedure   *)
(* or a diagnostic batch leaves on the cursor (batch).  The two programs   *)
(* are started from the environment variables (env); each keeps the        *)
(* connection string its constructor built (connection_string) and is      *)
(* starting, serving or exited (process).                                  *)
(***************************************************************************)
EXTENDS Integers, Sequences, FiniteSets, TLC

VARIABLES pc, req, outcome, trace, raised, nreq,
          db, denied, conns, reads, deleted, batch,
          env, connection_string, process

vars == <<pc, req, outcome, trace, raised, nreq, db, denied, conns, reads, deleted, batch,
          env, connection_string, process>>

(***************************************************************************)
(* Bounds                                                                  *)
(***************************************************************************)
MaxRequests == 2
MaxSpaces == 2
MaxRows == 2
MaxResults == 2

(***************************************************************************)
(* Characters and the str methods the handlers use                         *)
(***************************************************************************)
LowerLetters ==
  <<"a","b","c","d","e","f","g","h","i","j","k","l","m",
    "n","o","p","q","r","s","t","u","v","w","x","y","z">>

UpperLetters ==
  <<"A","B","C","D","E","F","G","H","I","J","K","L","M",
    "N","O","P","Q","R","S","T","U","V","W","X","Y","Z">>

Whitespace == {" ", "\t", "\n", "\r"}

Chars == {LowerLetters[i] : i \in 1..26} \cup {UpperLetters[i] : i \in 1..26}
           \cup Whitespace \cup {"*", "1"}

UpperOf ==
  [c \in Chars |->
     IF \E i \in 1..26 : LowerLetters[i] = c
     THEN UpperLetters[CHOOSE i \in 1..26 : LowerLetters[i] = c]
     ELSE c]

LowerOf ==
  [c \in Chars |->
     IF \E i \in 1..26 : UpperLetters[i] = c
     THEN LowerLetters[CHOOSE i \in 1..26 : UpperLetters[i] = c]
     ELSE c]

\* str.upper()
Upper(s) == [i \in 1..Len(s) |-> UpperOf[s[i]]]

\* str.lower(), used only to build inputs
Lower(s) == [i \in 1..Len(s) |-> LowerOf[s[i]]]

RECURSIVE LStrip(_)
LStrip(s) ==
  IF s = <<>> THEN s
  ELSE IF Head(s) \in Whitespace THEN LStrip(Tail(s)) ELSE s

RECURSIVE RStrip(_)
RStrip(s) ==
  IF s = <<>> THEN s
  ELSE IF s[Len(s)] \in Whitespace THEN RStrip(SubSeq(s, 1, Len(s) - 1)) ELSE s

\* str.strip()
Strip(s) == RStrip(LStrip(s))

\* the first maximal run of non-whitespace characters of s, and the rest
RECURSIVE TakeWord(_)
TakeWord(s) ==
  IF s = <<>> \/ Head(s) \in Whitespace THEN <<>>
  ELSE <<Head(s)>> \o TakeWord(Tail(s))

RECURSIVE DropWord(_)
DropWord(s) ==
  IF s = <<>> \/ Head(s) \in Whitespace THEN s ELSE DropWord(Tail(s))

\* sep.join(parts)
RECURSIVE Join(_, _)
Join(sep, parts) ==
  IF parts = <<>> THEN <<>>
  ELSE IF Len(parts) = 1 THEN parts[1]
  ELSE parts[1] \o sep \o Join(sep, Tail(parts))

\* str(n) of a non-negative int
Digits == <<"0", "1", "2", "3", "4", "5", "6", "7", "8", "9">>

RECURSIVE IntStr(_)
IntStr(n) ==
  IF n < 10 THEN <<Digits[n + 1]>>
  ELSE IntStr(n \div 10) \o <<Digits[(n % 10) + 1]>>

\* str.startswith(p)
StartsWith(s, p) == Len(p) <= Len(s) /\ SubSeq(s, 1, Len(p)) = p

\* str.startswith((p1, p2, ...)) and any(s.startswith(p) for p in ps)
StartsWithAny(s, ps) == \E i \in 1..Len(ps) : StartsWith(s, ps[i])

(***************************************************************************)
(* Keywords                                                                *)
(***************************************************************************)
SP == <<" ">>
kwSELECT    == <<"S","E","L","E","C","T">>
kwINSERT    == <<"I","N","S","E","R","T">>
kwUPDATE    == <<"U","P","D","A","T","E">>
kwDELETE    == <<"D","E","L","E","T","E">>
kwEXEC      == <<"E","X","E","C">>
kwEXECUTE   == <<"E","X","E","C","U","T","E">>
kwMERGE     == <<"M","E","R","G","E">>
kwCREATE    == <<"C","R","E","A","T","E">>
kwALTER     == <<"A","L","T","E","R">>
kwDROP      == <<"D","R","O","P">>
kwTABLE     == <<"T","A","B","L","E">>
kwVIEW      == <<"V","I","E","W">>
kwINDEX     == <<"I","N","D","E","X">>
kwPROCEDURE == <<"P","R","O","C","E","D","U","R","E">>
kwFUNCTION  == <<"F","U","N","C","T","I","O","N">>

\* "CREATE PROCEDURE" etc.: the two words joined by exactly one space
Two(a, b) == a \o SP \o b

\* allowed_commands with the table DDL left in the list
allowed_commands_WithTable ==
  << kwINSERT, kwUPDATE, kwDELETE,
     Two(kwCREATE, kwPROCEDURE), Two(kwALTER, kwPROCEDURE), Two(kwDROP, kwPROCEDURE),
     kwEXEC, kwEXECUTE,
     Two(kwCREATE, kwVIEW), Two(kwALTER, kwVIEW), Two(kwDROP, kwVIEW),
     Two(kwCREATE, kwINDEX), Two(kwDROP, kwINDEX), Two(kwCREATE, kwTABLE) >>

\* allowed_commands of _execute_write_query, in the order of the list
allowed_commands ==
  << kwINSERT, kwUPDATE, kwDELETE,
     Two(kwCREATE, kwPROCEDURE), Two(kwALTER, kwPROCEDURE), Two(kwDROP, kwPROCEDURE),
     kwEXEC, kwEXECUTE,
     Two(kwCREATE, kwVIEW), Two(kwALTER, kwVIEW), Two(kwDROP, kwVIEW),
     Two(kwCREATE, kwINDEX), Two(kwDROP, kwINDEX) >>

(***************************************************************************)
(* Requests, exceptions and outcomes                                       *)
(*                                                                         *)
(* A request is [server, name, action, params, sql, uri, minutes]: the     *)
(* tool name,                                                              *)
(* the value of arguments.get("action") (arguments.get("operation") for    *)
(* the simplified server; Absent when the key is missing), the set of      *)
(* other keys present in `arguments`, the text carried by the script key,  *)
(* the locator of a resource read and the value of time_period_minutes.    *)
(***************************************************************************)
Absent == "<absent>"

NoExc == [type |-> "none", msg |-> ""]
Exc(t, m) == [type |-> t, msg |-> m]

\* str(e): a KeyError prints its key quoted
Str(e) == IF e.type = "KeyError" THEN "'" \o e.msg \o "'" ELSE e.msg

NoOutcome == [variant |-> "none", text |-> <<>>]
Out(v, t) == [variant |-> v, text |-> t]

\* the state of one handler activation: the pending exception, the value
\* returned (NoOutcome while still running), the steps taken so far, the
\* first exception raised since the request arrived, the connection object
\* bound by `with ... as conn` (0 before the connect), the rows of T as the
\* connection's open transaction sees them, the rows committed, and the
\* `result` string a report handler is building
Start ==
  [exc |-> NoExc, out |-> NoOutcome, trace |-> <<>>, raised |-> NoExc,
   conn |-> 0, table |-> db.rows, committed |-> db.rows, result |-> <<>>]
Done(st) == st.exc # NoExc \/ st.out # NoOutcome

\* an exception leaves the statement that raised it
Throw(st, e, events) ==
  [st EXCEPT !.exc = e,
             !.raised = IF @ = NoExc THEN e ELSE @,
             !.trace = @ \o events]

\* raise <exception>
Raise(st, e) == IF Done(st) THEN st ELSE Throw(st, e, <<>>)

\* return [TextContent(type="text", text=...)]: the text is built first
Return(st, o) ==
  IF Done(st) THEN st
  ELSE [st EXCEPT !.out = o, !.trace = Append(@, "format")]

(***************************************************************************)
(* The database driver (pyodbc), as the handlers see it.  What the         *)
(* database does with one request is one scenario.                         *)
(***************************************************************************)
\* ok_zero: the queries return rows, and the counts in them are zero
Scenarios ==
  {"connect_fail", "execute_fail", "fetch_fail", "no_result_set",
   "commit_fail", "ok_empty", "ok_zero", "ok_rows"}

DriverMessage(sc) == "driver: " \o sc

(***************************************************************************)
(* The table T: column names from cursor.description and rows of cells.    *)
(* A cell is None, an int or a str.                                        *)
(***************************************************************************)
Null    == [kind |-> "null", int |-> 0, str |-> <<>>]
Number(n)  == [kind |-> "int",  int |-> n, str |-> <<>>]
Text(s) == [kind |-> "str",  int |-> 0, str |-> s]

Cells == {Null, Number(7), Text(<<"a", " ">>), Text(<<",">>), Text(<<"\n">>)}

ColumnNames == << <<"i", "d">>, <<"v">> >>

Table(columns, rows) == [columns |-> columns, rows |-> rows]

\* rows of m cells each
RowsOf(m) == [1..m -> Cells]

\* every table of one to Len(ColumnNames) columns and at most MaxRows rows
Tables ==
  UNION { UNION { { Table(SubSeq(ColumnNames, 1, m), rows) : rows \in [1..n -> RowsOf(m)] }
                  : n \in 0..MaxRows } : m \in 1..Len(ColumnNames) }

\* SELECT TOP 100 * FROM [table_name]
TopRows == 100

\* a table of one column with one row more than a resource read returns
BigTable == Table(<<ColumnNames[1]>>, [i \in 1..(TopRows + 1) |-> <<Number(i)>>])

\* the row an INSERT of the inputs adds
NewRow == <<Number(7), Null>>

\* the tables used when several requests follow each other
FewTables ==
  { Table(ColumnNames, <<>>),
    Table(ColumnNames, << NewRow, <<Null, Text(<<"a", " ">>)>> >>) }

\* what SQL Server does with a statement on T, by its first keyword: a
\* SELECT reads the rows, a DELETE removes them, an INSERT adds NewRow
\* unless it is there
StatementKind(sql) ==
  LET word == TakeWord(LStrip(Upper(sql)))
  IN  IF word = kwSELECT THEN "select"
      ELSE IF word = kwDELETE THEN "delete"
      ELSE IF word = kwINSERT THEN "insert"
      ELSE "other"

InTable(row, rows) == \E i \in 1..Len(rows) : rows[i] = row

Effect(kind, rows) ==
  IF kind = "delete" THEN <<>>
  ELSE IF kind = "insert" /\ ~InTable(NewRow, rows) THEN Append(rows, NewRow)
  ELSE rows

\* _get_connection handing out one connection object kept by the server
_get_connection_Shared(st, sc) ==
  IF Done(st) THEN st
  ELSE IF sc = "connect_fail"
       THEN Throw(st, Exc("pyodbc.Error", DriverMessage(sc)), <<"connect", "connect_error">>)
       ELSE [st EXCEPT !.trace = @ \o <<"connect", "open">>,
                       !.conn = IF conns = <<>> THEN 1 ELSE Len(conns)]

\* _get_connection: pyodbc.connect returns a new connection object; log
\* and re-raise on failure
_get_connection(st, sc) ==
  IF Done(st) THEN st
  ELSE IF sc = "connect_fail"
       THEN Throw(st, Exc("pyodbc.Error", DriverMessage(sc)), <<"connect", "connect_error">>)
       ELSE [st EXCEPT !.trace = @ \o <<"connect", "open">>,
                       !.conn = Len(conns) + 1]

\* cursor.execute(sql)
Execute(st, sc) ==
  IF Done(st) THEN st
  ELSE IF sc = "execute_fail"
       THEN Throw(st, Exc("pyodbc.Error", DriverMessage(sc)), <<"execute", "execute_error">>)
       ELSE [st EXCEPT !.trace = Append(@, "execute")]

\* cursor.fetchall() / cursor.fetchone(): a database error while the rows
\* are read, or pyodbc's ProgrammingError when there is no result set
Fetch(st, sc) ==
  IF Done(st) THEN st
  ELSE IF sc = "fetch_fail"
       THEN Throw(st, Exc("pyodbc.Error", DriverMessage(sc)), <<"fetch", "fetch_error">>)
  ELSE IF sc = "no_result_set"
       THEN Throw(st, Exc("pyodbc.ProgrammingError", "No results.  Previous SQL was not a query."),
                  <<"fetch", "no_results">>)
       ELSE [st EXCEPT !.trace = Append(@, "fetch")]

\* cursor.execute(sql) of a statement on T: its effect stays in the
\* connection's transaction until a commit
ExecuteSql(st, sql, sc) ==
  LET s1 == Execute(st, sc)
  IN  IF Done(s1) THEN s1
      ELSE [s1 EXCEPT !.table = Effect(StatementKind(sql), @)]

\* cursor.fetchall() after cursor.execute(sql): a DELETE or an INSERT
\* leaves no result set
FetchSql(st, sql, sc) ==
  IF StatementKind(sql) \in {"delete", "insert"}
  THEN Fetch(st, "no_result_set")
  ELSE Fetch(st, sc)

HasRows(sc) == sc = "ok_rows" \/ sc = "commit_fail"

\* the results a batch of statements leaves on the cursor, in order: a row
\* count without column metadata (INSERT, DECLARE, SET ...), a result set
\* with columns and no rows, or a result set with columns and rows
ResultKinds == {"count", "empty", "set"}

Batches == UNION { [1..n -> ResultKinds] : n \in 1..MaxResults }

\* the results when only a SELECT is run
OneSet == <<"set">>

\* cursor.description is not None at position i of the results
Columnar(rs, i) == i \in 1..Len(rs) /\ rs[i] # "count"

\* the results on the cursor of _execute_procedure: in the scenario
\* no_result_set the procedure's first statement leaves a row count, and
\* the results of `batch` follow it
ProcedureResultsOf(sc) == IF sc = "no_result_set" THEN <<"count">> \o batch ELSE batch

Has(tr, ev) == \E i \in 1..Len(tr) : tr[i] = ev

\* conn.commit()
Commit(st, sc) ==
  IF Done(st) THEN st
  ELSE IF sc = "commit_fail"
       THEN Throw(st, Exc("pyodbc.Error", DriverMessage(sc)), <<"commit_error">>)
       ELSE [st EXCEPT !.trace = Append(@, "commit"), !.committed = st.table]

\* a context manager that ends the scope without committing
WithExit_NoCommit(st, sc) ==
  IF ~Has(st.trace, "open") THEN st
  ELSE IF st.exc # NoExc
       THEN [st EXCEPT !.trace = Append(@, "rollback"), !.table = st.committed]
       ELSE [st EXCEPT !.trace = Append(@, "close"), !.table = st.committed]

\* leaving `with self._get_connection() as conn:`; pyodbc's
\* Connection.__exit__ ends the transaction: commit when the block left
\* without an exception, rollback otherwise.  It does not close the
\* connection.  Nothing happens when the connection was never opened.
WithExit(st, sc) ==
  IF ~Has(st.trace, "open") THEN st
  ELSE IF st.exc # NoExc
       THEN [st EXCEPT !.trace = Append(@, "rollback"), !.table = st.committed]
  ELSE IF sc = "commit_fail" /\ ~Has(st.trace, "commit_error")
       THEN Throw([st EXCEPT !.out = NoOutcome, !.table = st.committed],
                  Exc("pyodbc.Error", DriverMessage(sc)), <<"commit_error">>)
       ELSE [st EXCEPT !.trace = Append(@, "exit_commit"), !.committed = st.table]

(***************************************************************************)
(* Handlers of MSSQLServer                                                 *)
(***************************************************************************)
\* `if not <text>.strip().upper().startswith(...): raise ValueError(msg)`
Check(st, ok, msg) ==
  IF Done(st) THEN st
  ELSE IF ok THEN [st EXCEPT !.trace = Append(@, "classified")]
       ELSE Throw(st, Exc("ValueError", msg), <<"rejected">>)

\* str(cell) if cell is not None else ""
CellText(cell) ==
  IF cell.kind = "null" THEN <<>>
  ELSE IF cell.kind = "int" THEN IntStr(cell.int)
  ELSE cell.str

\* ",".join(str(cell) if cell is not None else "" for cell in row) + "\n"
RowLine(row) == Join(<<",">>, [i \in 1..Len(row) |-> CellText(row[i])]) \o <<"\n">>

\* the text the `for row in rows:` loop appends: the lines of the rows in
\* order (the lines of the first half, then those of the second half)
RECURSIVE RowLines(_)
RowLines(rows) ==
  IF rows = <<>> THEN <<>>
  ELSE IF Len(rows) = 1 THEN RowLine(rows[1])
  ELSE LET h == Len(rows) \div 2
       IN  RowLines(SubSeq(rows, 1, h)) \o RowLines(SubSeq(rows, h + 1, Len(rows)))

\* the table text with a line of dashes put under the header line
CsvData_Underlined(columns, rows) ==
  Join(<<",">>, columns) \o <<"\n">> \o <<"-", "\n">> \o RowLines(rows)

\* csv_data = ",".join(columns) + "\n", then one line per row
CsvData(columns, rows) == Join(<<",">>, columns) \o <<"\n">> \o RowLines(rows)

\* _execute_read_query with the SELECT check moved inside the connection scope
_execute_read_query_ConnectFirst(query, sc) ==
  LET s0 == Check(_get_connection(Start, sc), StartsWith(Upper(Strip(query)), kwSELECT),
                  "Only SELECT queries are allowed for read_query")
      s1 == FetchSql(ExecuteSql(s0, query, sc), query, sc)
      s2 == IF s1.table = <<>>
            THEN Return(s1, Out("status", <<"No results found">>))
            ELSE Return(s1, Out("tabular", CsvData(db.columns, s1.table)))
  IN  WithExit(s2, sc)

\* _execute_read_query without the `if not rows` branch
_execute_read_query_HeaderOnly(query, sc) ==
  LET s0 == Check(Start, StartsWith(Upper(Strip(query)), kwSELECT),
                  "Only SELECT queries are allowed for read_query")
      s1 == FetchSql(ExecuteSql(_get_connection(s0, sc), query, sc), query, sc)
  IN  WithExit(Return(s1, Out("tabular", CsvData(db.columns, s1.table))), sc)

\* _execute_read_query numbering its answers with a counter the server keeps
_execute_read_query_Counting(query, sc) ==
  LET s0 == Check(Start, StartsWith(Upper(Strip(query)), kwSELECT),
                  "Only SELECT queries are allowed for read_query")
      s1 == FetchSql(ExecuteSql(_get_connection(s0, sc), query, sc), query, sc)
      s2 == IF s1.table = <<>>
            THEN Return(s1, Out("status", <<"No results found">>))
            ELSE Return(s1, Out("tabular", IntStr(nreq) \o <<"\n">> \o CsvData(db.columns, s1.table)))
  IN  WithExit(s2, sc)

_execute_read_query(query, sc) ==
  LET s0 == Check(Start, StartsWith(Upper(Strip(query)), kwSELECT),
                  "Only SELECT queries are allowed for read_query")
      s1 == FetchSql(ExecuteSql(_get_connection(s0, sc), query, sc), query, sc)
      s2 == IF s1.table = <<>>
            THEN Return(s1, Out("status", <<"No results found">>))
            ELSE Return(s1, Out("tabular", CsvData(db.columns, s1.table)))
  IN  WithExit(s2, sc)

\* cursor.rowcount after a statement on T
rowcount(sql, before, sc) ==
  IF StatementKind(sql) = "delete" THEN Len(before)
  ELSE IF StatementKind(sql) = "insert" THEN (IF InTable(NewRow, before) THEN 0 ELSE 1)
  ELSE IF HasRows(sc) THEN 1 ELSE 0

\* the success text without the branches on the statement's prefix
WriteSuccessText_CountOnly(query_upper, affected_rows) ==
  <<"Query executed successfully. ">> \o IntStr(affected_rows) \o <<" rows affected.">>

WriteSuccessText(query_upper, affected_rows) ==
  IF StartsWithAny(query_upper, <<Two(kwCREATE, kwPROCEDURE), Two(kwALTER, kwPROCEDURE),
                                  Two(kwDROP, kwPROCEDURE)>>)
  THEN <<"Stored procedure operation executed successfully.">>
  ELSE IF StartsWithAny(query_upper, <<Two(kwCREATE, kwVIEW), Two(kwALTER, kwVIEW),
                                       Two(kwDROP, kwVIEW)>>)
  THEN <<"View operation executed successfully.">>
  ELSE IF StartsWithAny(query_upper, <<Two(kwCREATE, kwINDEX), Two(kwDROP, kwINDEX)>>)
  THEN <<"Index operation executed successfully.">>
  ELSE IF StartsWithAny(query_upper, <<kwEXEC, kwEXECUTE>>)
  THEN <<"Stored procedure executed successfully.">>
  ELSE <<"Query executed successfully. ">> \o IntStr(affected_rows) \o <<" rows affected.">>

WriteAllowed(query_upper) == StartsWithAny(query_upper, allowed_commands)

\* _execute_write_query returning its success text without a commit, in a
\* connection scope that discards the transaction
_execute_write_query_Uncommitted(query, sc) ==
  LET query_upper == Upper(Strip(query))
      s0 == Check(Start, WriteAllowed(query_upper),
                  "Only INSERT, UPDATE, DELETE, CREATE/ALTER/DROP PROCEDURE, CREATE/ALTER/DROP VIEW, CREATE/DROP INDEX, and EXEC queries are allowed for write_query")
      s1 == ExecuteSql(_get_connection(s0, sc), query, sc)
      affected_rows == rowcount(query, s0.table, sc)
      s2 == Return(s1, Out("status", WriteSuccessText(query_upper, affected_rows)))
  IN  WithExit_NoCommit(s2, sc)

_execute_write_query(query, sc) ==
  LET query_upper == Upper(Strip(query))
      s0 == Check(Start, WriteAllowed(query_upper),
                  "Only INSERT, UPDATE, DELETE, CREATE/ALTER/DROP PROCEDURE, CREATE/ALTER/DROP VIEW, CREATE/DROP INDEX, and EXEC queries are allowed for write_query")
      s1 == ExecuteSql(_get_connection(s0, sc), query, sc)
      affected_rows == rowcount(query, s0.table, sc)
      s2 == Return(Commit(s1, sc), Out("status", WriteSuccessText(query_upper, affected_rows)))
  IN  WithExit(s2, sc)

\* the shape shared by _create_table, _create_function, _modify_function,
\* _create_procedure, _modify_procedure, _create_view, _modify_view and
\* _create_index: prefix check, connect, execute, commit, return
\* the prefix check comparing the leading verb only
ScriptPrefixOk_VerbOnly(script, prefix) ==
  StartsWith(Upper(Strip(script)), SubSeq(prefix, 1, 4))

ScriptPrefixOk(script, prefix) == StartsWith(Upper(Strip(script)), prefix)

RunScript(script, prefix, errmsg, okmsg, sc) ==
  LET s0 == Check(Start, ScriptPrefixOk(script, prefix), errmsg)
      s1 == Commit(ExecuteSql(_get_connection(s0, sc), script, sc), sc)
  IN  WithExit(Return(s1, Out("status", <<okmsg>>)), sc)

_create_table(query, sc) ==
  RunScript(query, Two(kwCREATE, kwTABLE),
            "Only CREATE TABLE statements are allowed", "Table created successfully", sc)

_create_function(function_script, sc) ==
  RunScript(function_script, Two(kwCREATE, kwFUNCTION),
            "Only CREATE FUNCTION statements are allowed", "Function created successfully", sc)

_modify_function(function_script, sc) ==
  RunScript(function_script, Two(kwALTER, kwFUNCTION),
            "Only ALTER FUNCTION statements are allowed", "Function modified successfully", sc)

_create_procedure(procedure_script, sc) ==
  RunScript(procedure_script, Two(kwCREATE, kwPROCEDURE),
            "Only CREATE PROCEDURE statements are allowed", "Procedure created successfully", sc)

_modify_procedure(procedure_script, sc) ==
  RunScript(procedure_script, Two(kwALTER, kwPROCEDURE),
            "Only ALTER PROCEDURE statements are allowed", "Procedure modified successfully", sc)

_create_view(view_script, sc) ==
  RunScript(view_script, Two(kwCREATE, kwVIEW),
            "Only CREATE VIEW statements are allowed", "View created successfully", sc)

_modify_view(view_script, sc) ==
  RunScript(view_script, Two(kwALTER, kwVIEW),
            "Only ALTER VIEW statements are allowed", "View modified successfully", sc)

_create_index(index_script, sc) ==
  RunScript(index_script, Two(kwCREATE, kwINDEX),
            "Only CREATE INDEX statements are allowed", "Index created successfully", sc)

\* _delete_function, _delete_procedure, _delete_view, _delete_index:
\* connect, execute the DROP built from the name, commit, return
RunDrop(okmsg, sc) ==
  LET s1 == Commit(Execute(_get_connection(Start, sc), sc), sc)
  IN  WithExit(Return(s1, Out("status", <<okmsg>>)), sc)

_delete_function(sc)  == RunDrop("Function deleted successfully", sc)
_delete_procedure(sc) == RunDrop("Procedure deleted successfully", sc)
_delete_view(sc)      == RunDrop("View deleted successfully", sc)
_delete_index(sc)     == RunDrop("Index deleted successfully", sc)

\* the except clause re-raising what the fetch raised
CatchFetch_Reraise(st) == st

\* `except Exception:` around the fetch of _execute_procedure
CatchFetch(st) ==
  IF st.exc # NoExc
  THEN Return([st EXCEPT !.exc = NoExc],
              Out("status", <<"Procedure executed successfully.">>))
  ELSE st

\* the procedure called is one that selects the rows of T, or one that
\* returns no result set (scenario no_result_set); rows fetched always come
\* with cursor.description, so the "{len(rows)} rows returned" branch is
\* not taken
ProcedureResults == "Procedure executed successfully.\n\nResults:\n"

\* one cursor.fetchall() on the first result, no cursor.nextset()
_execute_procedure(sc) ==
  LET s1 == Execute(_get_connection(Start, sc), sc)
      rs == ProcedureResultsOf(sc)
      s2 == Fetch(s1, IF rs[1] = "count" THEN "no_result_set" ELSE sc)
      rows == IF rs[1] = "set" THEN s2.table ELSE <<>>
      s3 == IF rows # <<>>
            THEN Return(s2, Out("tabular", <<ProcedureResults>> \o CsvData(db.columns, rows)))
            ELSE Return(s2, Out("status", <<"Procedure executed successfully. No results returned.">>))
  IN  WithExit(IF Done(s1) THEN s1 ELSE CatchFetch(s3), sc)

\* catalog and statistics handlers without a try block of their own
\* (_list_tables, _describe_table, _list_functions, _describe_function,
\* _execute_function, _list_procedures, _describe_procedure,
\* _get_procedure_parameters, _list_views, _describe_view, _list_indexes,
\* _describe_index, _list_schemas, _list_all_objects, _get_table_size,
\* _get_top_waits, _get_missing_index_recommendations, _get_unused_indexes):
\* connect, execute a fixed query, fetch, return a listing or a "not found"
\* sentence
RunCatalog(h, sc) ==
  LET s1 == Fetch(Execute(_get_connection(Start, sc), sc), sc)
      s2 == IF HasRows(sc)
            THEN Return(s1, Out("status", <<h, "listing">>))
            ELSE Return(s1, Out("status", <<h, "nothing found">>))
  IN  WithExit(s2, sc)

\* statistics handlers wrapped in `try: ... except Exception as e: return
\* [TextContent(text=f"Error ...: {str(e)}")]`
GuardedMessage ==
  [ _get_blocking_sessions |-> "Error fetching blocking sessions: ",
    _get_connection_stats |-> "Error retrieving connection stats: ",
    _get_recent_deadlock_graph |-> "Error accessing deadlock information: ",
    _get_index_usage_stats |-> "Error retrieving index usage statistics: ",
    _get_fragmented_indexes |-> "Error getting fragmented indexes: ",
    _get_previous_blocking_sessions |-> "Error getting previous blocking sessions: ",
    _get_database_performance_stats |-> "Error getting database performance statistics: ",
    _get_failed_logins |-> "Error retrieving failed login information: ",
    _get_slow_queries |-> "Error retrieving slow queries: ",
    _get_buffer_pool_stats |-> "Error retrieving buffer pool statistics: " ]

RunGuarded(h, sc) ==
  LET s1 == WithExit(Fetch(Execute(_get_connection(Start, sc), sc), sc), sc)
  IN  IF s1.exc # NoExc
      THEN Return([s1 EXCEPT !.exc = NoExc],
                  Out("error", <<GuardedMessage[h], s1.exc.msg>>))
      ELSE IF HasRows(sc)
      THEN Return(s1, Out("status", <<h, "report">>))
      ELSE Return(s1, Out("status", <<h, "nothing found">>))

\* `while cursor.description is None: if not cursor.nextset(): break`
\* leaving the cursor where it is
SkipToColumns_Staying(rs, i) == i

\* `while cursor.description is None: if not cursor.nextset(): break`,
\* started at result i: the position of the result the loop stops at, 0
\* when nextset() returned False and no result is left
RECURSIVE SkipToColumns(_, _)
SkipToColumns(rs, i) ==
  IF Columnar(rs, i) THEN i
  ELSE IF i < Len(rs) THEN SkipToColumns(rs, i + 1)
  ELSE 0

\* the calls of cursor.nextset() the loop made
NextSetCalls(rs, at) == [k \in 1..(IF at = 0 THEN Len(rs) ELSE at - 1) |-> "nextset"]

\* `rows = cursor.fetchall() if cursor.description else []` with the cursor
\* at result `at`; the scenario no_result_set says nothing here, the
\* results are those of `batch`
FetchAt(st, rs, at, sc) ==
  IF Done(st) THEN st
  ELSE LET s1 == [st EXCEPT !.trace = @ \o NextSetCalls(rs, at)]
       IN  IF at = 0 THEN s1
           ELSE IF rs[at] = "count" THEN Fetch(s1, "no_result_set")
           ELSE Fetch(s1, IF sc = "no_result_set" THEN "ok_empty" ELSE sc)

RowsAt(rs, at) == at # 0 /\ rs[at] = "set"

\* the shape shared by _get_blocking_sessions and _get_failed_logins:
\* inside `try:`, connect, execute the batch, skip to the first result
\* with columns and fetch it; after the try, the no-data sentence or the
\* report
RunSkipping(h, nodata, report, sc) ==
  LET s0 == Execute(_get_connection(Start, sc), sc)
      at == SkipToColumns(batch, 1)
      s1 == WithExit(FetchAt(s0, batch, at, sc), sc)
  IN  IF s1.exc # NoExc
      THEN Return([s1 EXCEPT !.exc = NoExc],
                  Out("error", <<GuardedMessage[h], Str(s1.exc)>>))
      ELSE IF RowsAt(batch, at)
      THEN Return(s1, Out("status", <<report>>))
      ELSE Return(s1, Out("status", <<nodata>>))

_get_blocking_sessions(sc) ==
  RunSkipping("_get_blocking_sessions", "No current blocking sessions detected.",
              "Current Blocking Sessions:", sc)

\* `if time_period_minutes <= 0 or time_period_minutes > 43200`
MaxMinutes == 43200

\* _get_failed_logins with the range check after the connection is opened
_get_failed_logins_ConnectFirst(time_period_minutes, sc) ==
  IF time_period_minutes <= 0 \/ time_period_minutes > MaxMinutes
  THEN LET s1 == WithExit(_get_connection(Start, sc), sc)
       IN  Return([s1 EXCEPT !.exc = NoExc],
                  Out("error", <<"Please specify a valid time period in minutes (1 to 43200).">>))
  ELSE RunSkipping("_get_failed_logins",
                   "No failed login events found in the specified time period.",
                   "[LogDate] ProcessInfo - Text", sc)

_get_failed_logins(time_period_minutes, sc) ==
  IF time_period_minutes <= 0 \/ time_period_minutes > MaxMinutes
  THEN Return(Start, Out("error", <<"Please specify a valid time period in minutes (1 to 43200).">>))
  ELSE RunSkipping("_get_failed_logins",
                   "No failed login events found in the specified time period.",
                   "[LogDate] ProcessInfo - Text", sc)

\* a statement of _get_recent_deadlock_graph inside a `try:` of its own:
\* it fails when the login may not read what it reads
Approach(st, k, sc) == Fetch(Execute(st, IF k \in denied THEN "execute_fail" ELSE sc), sc)

\* `except Exception: pass`
Pass(st) == IF st.out = NoOutcome THEN [st EXCEPT !.exc = NoExc] ELSE st

\* the closing return: its f-string reads session_status, a name bound
\* nowhere in the module, so evaluating it raises NameError
AllApproachesFailed(st) ==
  Raise(st, Exc("NameError", "name 'session_status' is not defined"))

\* _get_recent_deadlock_graph.  The XML column arrives as a str, which has
\* no query() method: the three XQuery patterns raise inside their bare
\* `except: pass`, deadlock_xml stays None and approach 1 returns nothing.
_get_recent_deadlock_graph(sc) ==
  LET s1 == Fetch(Execute(_get_connection(Start, sc), sc), sc)
      s2 == IF Done(s1) THEN s1
            ELSE IF sc = "ok_empty"
            THEN Return(s1, Out("status", <<"system_health Extended Events session is not configured on this SQL Server instance.">>))
            ELSE Fetch(Execute(s1, sc), sc)
      s3 == IF Done(s2) THEN s2
            ELSE IF sc = "ok_zero"
            THEN Return(s2, Out("status", <<"No deadlock events found in system_health session.">>))
            ELSE Pass(Approach(s2, "xquery", sc))
      a2 == Approach(s3, "error_log", sc)
      s4 == IF Done(s3) THEN s3
            ELSE IF Done(a2) THEN Pass(a2)
            ELSE Return(a2, Out("status", <<"Recent Deadlock Entries from SQL Server Error Log:\n">>))
      a3 == Approach(s4, "xe_stats", sc)
      s5 == IF Done(s4) THEN s4
            ELSE IF Done(a3) THEN Pass(a3)
            ELSE Return(a3, Out("status", <<"Deadlock Statistics:\nTotal Deadlocks: ", "1">>))
      s6 == WithExit(AllApproachesFailed(s5), sc)
  IN  IF s6.exc # NoExc
      THEN Return([s6 EXCEPT !.exc = NoExc],
                  Out("error", <<GuardedMessage["_get_recent_deadlock_graph"], Str(s6.exc)>>))
      ELSE s6

\* _get_database_performance_stats (include_query_stats at its default):
\* six sections, each a `try:` of its own around the section's queries
Sections ==
  <<"cpu_memory", "buffer_pool", "io", "connection", "transaction_log", "query_stats">>

SectionError ==
  [ cpu_memory      |-> " Error retrieving CPU/Memory stats: ",
    buffer_pool     |-> " Error retrieving Buffer Pool stats: ",
    io              |-> " Error retrieving I/O stats: ",
    connection      |-> " Error retrieving Connection stats: ",
    transaction_log |-> " Error retrieving Transaction Log stats: ",
    query_stats     |-> " Error retrieving Query stats: " ]

SectionFigures ==
  [ cpu_memory      |-> " Logical CPUs: ",
    buffer_pool     |-> " Buffer Pool Size: ",
    io              |-> " Database: ",
    connection      |-> " Total User Sessions: ",
    transaction_log |-> "  - Log Size: ",
    query_stats     |-> ". Query Performance:" ]

\* `try: cursor.execute(...); cursor.fetchone(); result += <figures>
\*  except Exception as e: result += f" Error retrieving ...: {str(e)}\n"`;
\* the query of a section fails when the login may not read its view
Section(st, k, sc) ==
  IF Done(st) THEN st
  ELSE LET s1 == Fetch(Execute(st, IF k \in denied THEN "execute_fail" ELSE sc), sc)
       IN  IF s1.exc # NoExc
           THEN [s1 EXCEPT !.exc = NoExc, !.result = @ \o <<SectionError[k], Str(s1.exc)>>]
           ELSE [s1 EXCEPT !.result = @ \o <<SectionFigures[k]>>]

RECURSIVE RunSections(_, _, _)
RunSections(st, ks, sc) ==
  IF ks = <<>> THEN st
  ELSE RunSections(Section(st, Head(ks), sc), Tail(ks), sc)

_get_database_performance_stats(sc) ==
  LET c  == _get_connection(Start, sc)
      s0 == IF Done(c) THEN c
            ELSE [c EXCEPT !.result = <<" DATABASE PERFORMANCE STATISTICS">>]
      s1 == RunSections(s0, Sections, sc)
      s2 == Fetch(Execute(s1, sc), sc)
      s3 == WithExit(Return(s2, Out("status", s2.result \o <<"Report generated for SQL Server 2022 at ">>)), sc)
  IN  IF s3.exc # NoExc
      THEN Return([s3 EXCEPT !.exc = NoExc],
                  Out("error", <<GuardedMessage["_get_database_performance_stats"], s3.exc.msg>>))
      ELSE s3

(***************************************************************************)
(* call_tool of MSSQLServer: the (tool, action) table.  `needs` lists the  *)
(* keys read as arguments[...] in the order the call evaluates them.       *)
(***************************************************************************)
R(h, needs) == [handler |-> h, needs |-> needs]

Routes ==
  [ query |->
      [ read  |-> R("_execute_read_query", <<"sql">>),
        write |-> R("_execute_write_query", <<"sql">>) ],
    table |->
      [ list     |-> R("_list_tables", <<>>),
        describe |-> R("_describe_table", <<"table_name">>),
        create   |-> R("_create_table", <<"sql">>) ],
    performance |->
      [ top_waits         |-> R("_get_top_waits", <<>>),
        connection_stats  |-> R("_get_connection_stats", <<>>),
        blocking_sessions |-> R("_get_blocking_sessions", <<>>),
        deadlock_graph    |-> R("_get_recent_deadlock_graph", <<>>),
        previous_blocking |-> R("_get_previous_blocking_sessions", <<>>),
        database_stats    |-> R("_get_database_performance_stats", <<>>),
        slow_queries      |-> R("_get_slow_queries", <<>>),
        failed_logins     |-> R("_get_failed_logins", <<>>),
        buffer_pool_stats |-> R("_get_buffer_pool_stats", <<>>) ],
    function |->
      [ list     |-> R("_list_functions", <<>>),
        describe |-> R("_describe_function", <<"function_name">>),
        create   |-> R("_create_function", <<"function_script">>),
        execute  |-> R("_execute_function", <<"function_name">>),
        modify   |-> R("_modify_function", <<"function_script">>),
        delete   |-> R("_delete_function", <<"function_name">>) ],
    index_analysis |->
      [ unused                  |-> R("_get_unused_indexes", <<>>),
        missing_recommendations |-> R("_get_missing_index_recommendations", <<>>),
        fragmented              |-> R("_get_fragmented_indexes", <<>>) ],
    procedure |->
      [ list           |-> R("_list_procedures", <<>>),
        describe       |-> R("_describe_procedure", <<"procedure_name">>),
        create         |-> R("_create_procedure", <<"procedure_script">>),
        execute        |-> R("_execute_procedure", <<"procedure_name">>),
        modify         |-> R("_modify_procedure", <<"procedure_script">>),
        delete         |-> R("_delete_procedure", <<"procedure_name">>),
        get_parameters |-> R("_get_procedure_parameters", <<"procedure_name">>) ],
    view |->
      [ list     |-> R("_list_views", <<>>),
        describe |-> R("_describe_view", <<"view_name">>),
        create   |-> R("_create_view", <<"view_script">>),
        modify   |-> R("_modify_view", <<"view_script">>),
        delete   |-> R("_delete_view", <<"view_name">>) ],
    index |->
      [ list                  |-> R("_list_indexes", <<>>),
        describe              |-> R("_describe_index", <<"index_name", "table_name">>),
        create                |-> R("_create_index", <<"index_script">>),
        delete                |-> R("_delete_index", <<"index_name", "table_name">>),
        get_index_usage_stats |-> R("_get_index_usage_stats", <<>>) ],
    schema |->
      [ list_schemas |-> R("_list_schemas", <<>>),
        list_objects |-> R("_list_all_objects", <<>>),
        table_size   |-> R("_get_table_size", <<"table_name">>) ] ]

KnownTool(name) == name \in DOMAIN Routes
KnownAction(name, action) == KnownTool(name) /\ action \in DOMAIN Routes[name]

\* keys read with arguments.get(...): never missing
MissingKeys_Get(needs, params) == {}

\* the first key of `needs` that `arguments` lacks: arguments[k] raises KeyError(k)
MissingKeys(needs, params) == {i \in 1..Len(needs) : needs[i] \notin params}
FirstMissing(needs, params) ==
  needs[CHOOSE i \in MissingKeys(needs, params) :
          \A j \in MissingKeys(needs, params) : i <= j]

\* arguments.get("time_period_minutes", 120)
DefaultMinutes == 120

time_period(r) ==
  IF "time_period_minutes" \in r.params THEN r.minutes ELSE DefaultMinutes

\* the call `await self.<handler>(...)`
Invoke(h, r, sc) ==
  CASE h = "_execute_read_query"  -> _execute_read_query(r.sql, sc)
    [] h = "_execute_write_query" -> _execute_write_query(r.sql, sc)
    [] h = "_create_table"        -> _create_table(r.sql, sc)
    [] h = "_create_function"     -> _create_function(r.sql, sc)
    [] h = "_modify_function"     -> _modify_function(r.sql, sc)
    [] h = "_create_procedure"    -> _create_procedure(r.sql, sc)
    [] h = "_modify_procedure"    -> _modify_procedure(r.sql, sc)
    [] h = "_create_view"         -> _create_view(r.sql, sc)
    [] h = "_modify_view"         -> _modify_view(r.sql, sc)
    [] h = "_create_index"        -> _create_index(r.sql, sc)
    [] h = "_delete_function"     -> _delete_function(sc)
    [] h = "_delete_procedure"    -> _delete_procedure(sc)
    [] h = "_delete_view"         -> _delete_view(sc)
    [] h = "_delete_index"        -> _delete_index(sc)
    [] h = "_execute_procedure"   -> _execute_procedure(sc)
    [] h = "_get_database_performance_stats" -> _get_database_performance_stats(sc)
    [] h = "_get_blocking_sessions"     -> _get_blocking_sessions(sc)
    [] h = "_get_failed_logins"         -> _get_failed_logins(time_period(r), sc)
    [] h = "_get_recent_deadlock_graph" -> _get_recent_deadlock_graph(sc)
    [] h \in DOMAIN GuardedMessage -> RunGuarded(h, sc)
    [] OTHER                      -> RunCatalog(h, sc)

\* an except clause that names the expected classes only
ExceptionClasses_Narrow == {"ValueError", "pyodbc.Error", "pyodbc.ProgrammingError"}

\* the classes `except Exception` catches: every exception the handlers,
\* the dispatcher and the driver raise derives from Exception
ExceptionClasses ==
  {"ValueError", "KeyError", "pyodbc.Error", "pyodbc.ProgrammingError"}

\* `except Exception as e: return [TextContent(text=f"Error: {str(e)}")]`
CatchAll(st) ==
  IF st.exc # NoExc /\ st.exc.type \in ExceptionClasses
  THEN [st EXCEPT !.exc = NoExc,
                  !.out = Out("error", <<"Error: ", Str(st.exc)>>),
                  !.trace = Append(@, "caught")]
  ELSE st

\* a dispatcher whose action chain ends in the listing handler instead of
\* the "Invalid action" text
Dispatch_FallsThrough(r, sc) ==
  IF ~KnownTool(r.name)
  THEN Raise(Start, Exc("ValueError", "Unknown tool: " \o r.name))
  ELSE IF ~KnownAction(r.name, r.action)
  THEN LET h == RunCatalog("_list_tables", sc)
       IN  [h EXCEPT !.trace = <<"validated", "_list_tables">> \o @]
  ELSE LET route == Routes[r.name][r.action]
       IN  IF MissingKeys(route.needs, r.params) # {}
           THEN Raise(Start, Exc("KeyError", FirstMissing(route.needs, r.params)))
           ELSE LET h == Invoke(route.handler, r, sc)
                IN  [h EXCEPT !.trace = <<"validated", route.handler>> \o @]

Dispatch(r, sc) ==
  IF ~KnownTool(r.name)
  THEN Raise(Start, Exc("ValueError", "Unknown tool: " \o r.name))
  ELSE IF ~KnownAction(r.name, r.action)
  THEN Return(Start, Out("error", <<"Invalid action for ", r.name, " tool">>))
  ELSE LET route == Routes[r.name][r.action]
       IN  IF MissingKeys(route.needs, r.params) # {}
           THEN Raise(Start, Exc("KeyError", FirstMissing(route.needs, r.params)))
           ELSE LET h == Invoke(route.handler, r, sc)
                IN  [h EXCEPT !.trace = <<"validated", route.handler>> \o @]

call_tool(r, sc) == CatchAll(Dispatch(r, sc))

(***************************************************************************)
(* read_resource of MSSQLServer.  A locator is what urlparse makes of it:  *)
(* its scheme and its netloc, the table name.                              *)
(***************************************************************************)
Uri(scheme, netloc) == [scheme |-> scheme, netloc |-> netloc]
NoUri == Uri("", "")

\* SELECT * FROM [table_name]
Top_All(rows, n) == rows

Top(rows, n) == IF Len(rows) <= n THEN rows ELSE SubSeq(rows, 1, n)

\* the database holds the table T only: any other name fails the SELECT
read_resource(uri, sc) ==
  LET s0 == IF uri.scheme # "mssql"
            THEN Raise(Start, Exc("ValueError", "Invalid URI scheme"))
            ELSE IF uri.netloc = ""
            THEN Raise(Start, Exc("ValueError", "Table name not specified in URI"))
            ELSE Start
      s1 == Fetch(Execute(_get_connection(s0, sc), IF uri.netloc = "T" THEN sc ELSE "execute_fail"), sc)
      rows == Top(s1.table, TopRows)
      s2 == IF rows = <<>>
            THEN Return(s1, Out("status", <<"No data found">>))
            ELSE Return(s1, Out("tabular", CsvData(db.columns, rows)))
  IN  CatchAll(WithExit(s2, sc))

\* list_resources answering a failure with an error entry
list_resources_Reporting(sc) ==
  LET s1 == Fetch(Execute(_get_connection(Start, sc), sc), sc)
      s2 == WithExit(Return(s1, Out("resources", IF HasRows(sc) THEN <<"mssql://T/data">> ELSE <<>>)), sc)
  IN  IF s2.exc # NoExc
      THEN Return([s2 EXCEPT !.exc = NoExc], Out("error", <<"Error: ", Str(s2.exc)>>))
      ELSE s2

\* list_resources: the catalog query names T, or nothing in the scenarios
\* without rows; any exception is logged and an empty list returned
list_resources(sc) ==
  LET s1 == Fetch(Execute(_get_connection(Start, sc), sc), sc)
      s2 == WithExit(Return(s1, Out("resources", IF HasRows(sc) THEN <<"mssql://T/data">> ELSE <<>>)), sc)
  IN  IF s2.exc # NoExc
      THEN Return([s2 EXCEPT !.exc = NoExc], Out("resources", <<>>))
      ELSE s2

(***************************************************************************)
(* SimplifiedMSSQLServer                                                   *)
(***************************************************************************)
\* `not sql`: the key is missing or the text is empty
SqlFalsy(r) == "sql" \notin r.params \/ r.sql = <<>>

\* `not operation`: the key is missing or the string is empty
OperationFalsy(r) == r.action = Absent \/ r.action = ""

\* _execute_database_operation testing the operation before it connects
_execute_database_operation_ValidFirst(r, sc) ==
  LET operation == r.action
      c  == _get_connection(Start, sc)
      body ==
        IF operation = "READ"
        THEN LET f == FetchSql(ExecuteSql(c, r.sql, sc), r.sql, sc)
             IN  IF f.table = <<>>
                 THEN Return(f, Out("status", <<"No results returned">>))
                 ELSE Return(f, Out("tabular", Strip(CsvData(db.columns, f.table))))
        ELSE IF operation \in {"CREATE", "UPDATE", "DELETE"}
        THEN Return(Commit(ExecuteSql(c, r.sql, sc), sc),
                    Out("status", <<operation, " operation completed successfully.">>))
        ELSE Return(Start, Out("error", <<"Error: Invalid operation '", operation,
                                      "'. Use CREATE, READ, UPDATE, or DELETE">>))
      w  == WithExit(body, sc)
  IN  IF SqlFalsy(r)
      THEN Return(Start, Out("error", <<"Error: SQL query is required">>))
      ELSE IF OperationFalsy(r)
      THEN Return(Start, Out("error", <<"Error: Operation is required (CREATE, READ, UPDATE, DELETE)">>))
      ELSE IF w.exc # NoExc
      THEN Return([w EXCEPT !.exc = NoExc],
                  Out("error", <<"Error executing ", operation, " operation: ", Str(w.exc)>>))
      ELSE w

_execute_database_operation(r, sc) ==
  LET operation == r.action
      c  == _get_connection(Start, sc)
      body ==
        IF operation = "READ"
        THEN LET f == FetchSql(ExecuteSql(c, r.sql, sc), r.sql, sc)
             IN  IF f.table = <<>>
                 THEN Return(f, Out("status", <<"No results returned">>))
                 ELSE Return(f, Out("tabular", Strip(CsvData(db.columns, f.table))))
        ELSE IF operation \in {"CREATE", "UPDATE", "DELETE"}
        THEN Return(Commit(ExecuteSql(c, r.sql, sc), sc),
                    Out("status", <<operation, " operation completed successfully.">>))
        ELSE Return(c, Out("error", <<"Error: Invalid operation '", operation,
                                      "'. Use CREATE, READ, UPDATE, or DELETE">>))
      w  == WithExit(body, sc)
  IN  IF SqlFalsy(r)
      THEN Return(Start, Out("error", <<"Error: SQL query is required">>))
      ELSE IF OperationFalsy(r)
      THEN Return(Start, Out("error", <<"Error: Operation is required (CREATE, READ, UPDATE, DELETE)">>))
      ELSE IF w.exc # NoExc
      THEN Return([w EXCEPT !.exc = NoExc],
                  Out("error", <<"Error executing ", operation, " operation: ", Str(w.exc)>>))
      ELSE w

simplified_call_tool(r, sc) ==
  CatchAll(IF r.name = "database"
           THEN LET h == _execute_database_operation(r, sc)
                IN  [h EXCEPT !.trace = <<"_execute_database_operation">> \o @]
           ELSE Raise(Start, Exc("ValueError", "Unknown tool: " \o r.name)))

(***************************************************************************)
(* Construction: __init__ and _build_connection_string of the two servers  *)
(***************************************************************************)
Programs == {"main", "simplified"}

\* the program a request is addressed to; resources are served by server.py
ProgramOf(srv) == IF srv = "simplified" THEN "simplified" ELSE "main"

\* os.getenv(name, default): the default only when the variable is unset
Getenv(value, default) == IF value = Absent THEN default ELSE value

Environment(server, database, username, password) ==
  [server |-> server, database |-> database, username |-> username, password |-> password]

Built(cs) == [exc |-> NoExc, value |-> cs]
Failed(e) == [exc |-> e, value |-> <<>>]

\* _build_connection_string of server.py without the `if not all(...)` check
_build_connection_string_Unchecked(e) ==
  LET server   == Getenv(e.server, "localhost")
      database == Getenv(e.database, "")
      username == Getenv(e.username, "")
      password == Getenv(e.password, "")
  IN  Built(<<"DRIVER=", "{ODBC Driver 17 for SQL Server}", ";SERVER=", server, ",", "1433",
              ";DATABASE=", database, ";">>
            \o (IF username # "" /\ password # ""
                THEN <<"UID=", username, ";PWD=", password, ";">> ELSE <<>>)
            \o <<"TrustServerCertificate=", "yes", ";Trusted_Connection=", "no", ";">>)

\* _build_connection_string of server.py
_build_connection_string(e) ==
  LET server   == Getenv(e.server, "localhost")
      database == Getenv(e.database, "")
      username == Getenv(e.username, "")
      password == Getenv(e.password, "")
  IN  IF server = "" \/ database = ""
      THEN Failed(Exc("ValueError", "MSSQL_SERVER and MSSQL_DATABASE must be set"))
      ELSE Built(<<"DRIVER=", "{ODBC Driver 17 for SQL Server}", ";SERVER=", server, ",", "1433",
                   ";DATABASE=", database, ";">>
                 \o (IF username # "" /\ password # ""
                     THEN <<"UID=", username, ";PWD=", password, ";">> ELSE <<>>)
                 \o <<"TrustServerCertificate=", "yes", ";Trusted_Connection=", "no", ";">>)

\* _build_connection_string of simplified_server.py (AUTH_METHOD at its
\* default "sql")
simplified_build_connection_string(e) ==
  LET server   == Getenv(e.server, "localhost")
      database == Getenv(e.database, "master")
      username == Getenv(e.username, "")
      password == Getenv(e.password, "")
  IN  IF server = ""
      THEN Failed(Exc("ValueError", "MSSQL_SERVER must be set"))
      ELSE Built(<<"DRIVER=", "{ODBC Driver 18 for SQL Server}", ";SERVER=", server, ",", "1433", ";">>
                 \o (IF database # "" THEN <<"DATABASE=", database, ";">> ELSE <<>>)
                 \o (IF username # "" /\ password # ""
                     THEN <<"UID=", username, ";PWD=", password, ";", "Trusted_Connection=no;">>
                     ELSE <<"Trusted_Connection=yes;">>)
                 \o <<"TrustServerCertificate=", "yes", ";">>)

Build(p, e) ==
  IF p = "main" THEN _build_connection_string(e) ELSE simplified_build_connection_string(e)

\* _sanitize_connection_string: the password masked for the log
_sanitize_connection_string(cs) ==
  [i \in 1..Len(cs) |-> IF i > 1 /\ cs[i - 1] = ";PWD=" THEN "***" ELSE cs[i]]

\* a _get_connection that keeps the sanitized string after a failed connect
connection_string_Sanitized(st, cs) ==
  IF Has(st.trace, "connect_error") THEN _sanitize_connection_string(cs) ELSE cs

\* self.connection_string after a handler activation: the handlers read
\* it in _get_connection and in _sanitize_connection_string, none assigns it
connection_string_After(st, cs) == cs

(***************************************************************************)
(* Inputs                                                                  *)
(***************************************************************************)
Spaces(n) == [i \in 1..n |-> " "]

Separators == {Spaces(n) : n \in 1..MaxSpaces} \cup {<<"\t">>}
Suffixes   == {<<>>, <<"X">>, <<" ", "T">>}
Leads      == {<<>>, <<"\n", " ">>}

OneWord == {kwSELECT, kwINSERT, kwUPDATE, kwDELETE, kwEXEC, kwEXECUTE, kwMERGE}
Verbs   == {kwCREATE, kwALTER, kwDROP}
Objects == {kwTABLE, kwVIEW, kwINDEX, kwPROCEDURE, kwFUNCTION}

Stems ==
  OneWord \cup {v \o sep \o o : v \in Verbs, sep \in Separators, o \in Objects}

\* every stem, with and without leading whitespace, in upper and in lower
\* case, followed by nothing, by a letter or by a space and a name
Texts ==
  {<<>>} \cup
  {lead \o w \o suf : lead \in Leads, suf \in Suffixes,
                      w \in Stems \cup {Lower(x) : x \in Stems}}

\* the texts used when several requests follow each other
FewTexts ==
  { kwSELECT \o <<" ", "1">>,
    <<" ">> \o Lower(kwDELETE) \o <<" ", "T">>,
    kwINSERT \o <<" ", "T">>,
    Two(kwCREATE, kwTABLE) \o <<" ", "T">>,
    Two(kwCREATE, kwVIEW) \o <<" ", "T">>,
    kwEXEC \o <<" ", "T">>,
    kwMERGE \o <<" ", "T">> }

ScriptKeys ==
  {"sql", "function_script", "procedure_script", "view_script", "index_script"}

ToolNames   == DOMAIN Routes \cup {"bogus"}
ActionNames(t) ==
  (IF t \in DOMAIN Routes THEN DOMAIN Routes[t] ELSE {"read"}) \cup {"bogus", Absent}

NeedsOf(t, a) ==
  IF KnownAction(t, a)
  THEN {Routes[t][a].needs[i] : i \in 1..Len(Routes[t][a].needs)}
  ELSE {}

Request(srv, t, a, P, x) ==
  [server |-> srv, name |-> t, action |-> a, params |-> P, sql |-> x, uri |-> NoUri,
   minutes |-> 0]

NoRequest == Request("none", "", "", {}, <<>>)

MainRequests(T) ==
  UNION { UNION { UNION {
    { Request("main", t, a, P, x) :
        x \in IF P \cap ScriptKeys # {} THEN T ELSE {<<>>} }
    : P \in SUBSET NeedsOf(t, a) } : a \in ActionNames(t) } : t \in ToolNames }

SimplifiedRequests(T) ==
  { Request("simplified", t, a, P, x) :
      t \in {"database", "bogus"},
      a \in {"CREATE", "READ", "UPDATE", "DELETE", "MERGE", "", Absent},
      P \in SUBSET {"sql"},
      x \in T \cup {<<>>} }

\* resources/read with a locator: mssql://T/data, one of another scheme,
\* one without a table name and one naming a table that does not exist
ResourceRequests ==
  { [Request("resource", "read_resource", Absent, {}, <<>>) EXCEPT !.uri = u] :
      u \in {Uri("mssql", "T"), Uri("http", "T"), Uri("mssql", ""), Uri("mssql", "U")} }

\* resources/list
ListRequest == Request("resource", "list_resources", Absent, {}, <<>>)

\* the environments a program is started in
Envs ==
  { Environment(s, d, Absent, Absent) : s \in {Absent, "", "db1"}, d \in {Absent, "", "sales"} }
  \cup { Environment("db1", "sales", "sa", "pw") }

DefaultEnv == Environment("db1", "sales", "sa", "pw")

\* the sets of server views the login is denied
DeniedSets == {{}, {"io", "query_stats"}}

(***************************************************************************)
(* State machine                                                           *)
(***************************************************************************)
NoDelete == -1

\* both programs constructed and serving
Constructed ==
  /\ env = DefaultEnv
  /\ connection_string = [p \in Programs |-> Build(p, DefaultEnv).value]
  /\ process = [p \in Programs |-> "serving"]

Init ==
  /\ pc = "idle"
  /\ req = NoRequest
  /\ outcome = NoOutcome
  /\ trace = <<>>
  /\ raised = NoExc
  /\ nreq = 0
  /\ db \in FewTables
  /\ denied \in DeniedSets
  /\ conns = <<>>
  /\ reads = <<>>
  /\ deleted = NoDelete
  /\ batch = OneSet
  /\ Constructed

\* a request of the set `requests` arrives from the transport at a program that is
\* serving
Arrive(requests) ==
  /\ pc \in {"idle", "returned"}
  /\ nreq < MaxRequests
  /\ req' \in requests
  /\ process[ProgramOf(req'.server)] = "serving"
  /\ pc' = "received"
  /\ outcome' = NoOutcome
  /\ trace' = <<>>
  /\ raised' = NoExc
  /\ nreq' = nreq + 1
  /\ UNCHANGED <<db, denied, conns, reads, deleted, batch, env, connection_string, process>>

\* the tool invocations and resource reads a client sends
Requests == MainRequests(FewTexts) \cup SimplifiedRequests(FewTexts) \cup ResourceRequests

\* a tool invocation or a resource read arrives
Receive == Arrive(Requests)

\* the connection objects after a handler activation: pyodbc.connect made
\* a new one, or the activation ran on one that existed
Connections(st) ==
  IF st.conn = 0 THEN conns
  ELSE IF st.conn <= Len(conns)
       THEN [conns EXCEPT ![st.conn].users = @ \cup {nreq}]
       ELSE Append(conns, [owner |-> nreq, users |-> {nreq}, closed |-> FALSE])

LastTwo(s) == IF Len(s) <= 2 THEN s ELSE SubSeq(s, Len(s) - 1, Len(s))

\* the query/read requests answered without an exception: the statement,
\* the rows of T it ran against and the text returned (the last two)
ReadLog(st) ==
  IF /\ req.server = "main" /\ req.name = "query" /\ req.action = "read"
     /\ st.raised = NoExc /\ Has(st.trace, "fetch")
  THEN LastTwo(Append(reads, [sql |-> req.sql, table |-> db.rows, out |-> st.out]))
  ELSE reads

\* the rows affected by the last query/write DELETE that returned its
\* success status, NoDelete when there was none or an INSERT has been sent
\* to the database since
DeleteLog(st) ==
  IF /\ req.server = "main" /\ req.name = "query" /\ req.action = "write"
     /\ StatementKind(req.sql) = "delete" /\ st.out.variant = "status"
  THEN Len(db.rows)
  ELSE IF StatementKind(req.sql) = "insert" /\ Has(st.trace, "execute")
  THEN NoDelete
  ELSE deleted

\* what the transport gets back from a handler activation, and what the
\* activation left in the database
Finish(st) ==
  /\ pc' = IF st.exc # NoExc THEN "propagated" ELSE "returned"
  /\ outcome' = st.out
  /\ trace' = Append(st.trace, IF st.exc # NoExc THEN "propagate" ELSE "return")
  /\ raised' = st.raised
  /\ db' = [db EXCEPT !.rows = st.committed]
  /\ conns' = Connections(st)
  /\ reads' = ReadLog(st)
  /\ deleted' = DeleteLog(st)
  /\ connection_string' =
       [connection_string EXCEPT ![ProgramOf(req.server)] = connection_string_After(st, @)]
  /\ UNCHANGED <<req, nreq, denied, batch, env, process>>

CallTool ==
  /\ pc = "received"
  /\ req.server = "main"
  /\ \E sc \in Scenarios : Finish(call_tool(req, sc))

SimplifiedCallTool ==
  /\ pc = "received"
  /\ req.server = "simplified"
  /\ \E sc \in Scenarios : Finish(simplified_call_tool(req, sc))

ReadResource ==
  /\ pc = "received"
  /\ req.server = "resource" /\ req.name = "read_resource"
  /\ \E sc \in Scenarios : Finish(read_resource(req.uri, sc))

ListResources ==
  /\ pc = "received"
  /\ req.server = "resource" /\ req.name = "list_resources"
  /\ \E sc \in Scenarios : Finish(list_resources(sc))

\* main(): `server = MSSQLServer()` runs __init__, which builds the
\* connection string before it registers the handlers; an exception of
\* the constructor ends the process (sys.exit(1) in server.py, the
\* uncaught exception in simplified_server.py)
Construct ==
  \E p \in Programs :
     /\ process[p] = "starting"
     /\ LET b == Build(p, env)
        IN  IF b.exc # NoExc
            THEN /\ process' = [process EXCEPT ![p] = "exited"]
                 /\ UNCHANGED connection_string
            ELSE /\ process' = [process EXCEPT ![p] = "serving"]
                 /\ connection_string' = [connection_string EXCEPT ![p] = b.value]
     /\ UNCHANGED <<pc, req, outcome, trace, raised, nreq, db, denied, conns, reads, deleted,
                    batch, env>>

\* the interpreter discards a connection object some time after the
\* handler that held it has returned; pyodbc closes the connection then
Finalize ==
  /\ \E h \in 1..Len(conns) :
        /\ ~conns[h].closed
        /\ conns' = [conns EXCEPT ![h].closed = TRUE]
  /\ UNCHANGED <<pc, req, outcome, trace, raised, nreq, db, denied, reads, deleted, batch,
                 env, connection_string, process>>

Next == Receive \/ CallTool \/ SimplifiedCallTool \/ ReadResource \/ Finalize

Spec == Init /\ [][Next]_vars

\* one request of the full input family in flight
InitInput ==
  /\ pc = "received"
  /\ req \in MainRequests(Texts) \cup SimplifiedRequests(FewTexts)
  /\ outcome = NoOutcome
  /\ trace = <<>>
  /\ raised = NoExc
  /\ nreq = 1
  /\ db = Table(ColumnNames, <<NewRow>>)
  /\ denied = {}
  /\ conns = <<>>
  /\ reads = <<>>
  /\ deleted = NoDelete
  /\ batch = OneSet
  /\ Constructed

NextInput == CallTool \/ SimplifiedCallTool

InputSpec == InitInput /\ [][NextInput]_vars

\* the requests answered with a table
TabularRequests ==
  { Request("main", "query", "read", {"sql"}, kwSELECT \o <<" ", "1">>),
    Request("main", "procedure", "execute", {"procedure_name"}, <<>>),
    Request("simplified", "database", "READ", {"sql"}, kwSELECT \o <<" ", "1">>),
    [Request("resource", "read_resource", Absent, {}, <<>>) EXCEPT !.uri = Uri("mssql", "T")] }

\* one tabular request in flight against any table
InitFormat ==
  /\ pc = "received"
  /\ req \in TabularRequests
  /\ outcome = NoOutcome
  /\ trace = <<>>
  /\ raised = NoExc
  /\ nreq = 1
  /\ db \in Tables \cup {BigTable}
  /\ denied = {}
  /\ conns = <<>>
  /\ reads = <<>>
  /\ deleted = NoDelete
  /\ batch = OneSet
  /\ Constructed

NextFormat == CallTool \/ SimplifiedCallTool \/ ReadResource

FormatSpec == InitFormat /\ [][NextFormat]_vars

\* the requests whose statements leave several results on the cursor or
\* are tried one approach after the other
MinutesValues == {-1, 0, 1, MaxMinutes, MaxMinutes + 1}

BatchRequests ==
  { Request("main", "procedure", "execute", {"procedure_name"}, <<>>),
    Request("main", "performance", "blocking_sessions", {}, <<>>),
    Request("main", "performance", "deadlock_graph", {}, <<>>),
    Request("main", "performance", "failed_logins", {}, <<>>) }
  \cup { [Request("main", "performance", "failed_logins", {"time_period_minutes"}, <<>>)
            EXCEPT !.minutes = m] : m \in MinutesValues }

DeadlockSources == {"xquery", "error_log", "xe_stats"}

\* one such request in flight, for any results and any permissions
InitBatch ==
  /\ pc = "received"
  /\ req \in BatchRequests
  /\ outcome = NoOutcome
  /\ trace = <<>>
  /\ raised = NoExc
  /\ nreq = 1
  /\ db \in FewTables
  /\ denied \in SUBSET DeadlockSources
  /\ conns = <<>>
  /\ reads = <<>>
  /\ deleted = NoDelete
  /\ batch \in Batches
  /\ Constructed

NextBatch == CallTool

BatchSpec == InitBatch /\ [][NextBatch]_vars

\* the requests sent to programs that were started in any environment
StartupRequests ==
  { Request("main", "query", "read", {"sql"}, kwSELECT \o <<" ", "1">>),
    Request("main", "bogus", "read", {}, <<>>),
    Request("simplified", "database", "READ", {"sql"}, kwSELECT \o <<" ", "1">>),
    ListRequest }
  \cup { r \in ResourceRequests : r.uri.netloc # "U" }

Unset == <<>>

InitStartup ==
  /\ pc = "idle"
  /\ req = NoRequest
  /\ outcome = NoOutcome
  /\ trace = <<>>
  /\ raised = NoExc
  /\ nreq = 0
  /\ db = Table(ColumnNames, <<NewRow>>)
  /\ denied = {}
  /\ conns = <<>>
  /\ reads = <<>>
  /\ deleted = NoDelete
  /\ batch = OneSet
  /\ env \in Envs
  /\ connection_string = [p \in Programs |-> Unset]
  /\ process = [p \in Programs |-> "starting"]

StartupReceive == Arrive(StartupRequests)

NextStartup ==
  Construct \/ StartupReceive \/ CallTool \/ SimplifiedCallTool \/ ReadResource \/ ListResources

StartupSpec == InitStartup /\ [][NextStartup]_vars

(***************************************************************************)
(* Vocabulary of the properties                                            *)
(***************************************************************************)
Returned == pc = "returned"
IsCall(t, a) == req.server = "main" /\ req.name = t /\ req.action = a
ConnectionOpened == Has(trace, "connect")
StatementSent == Has(trace, "execute")
ErrorOutcome == outcome.variant = "error"
Normalized(x) == Upper(Strip(x))
InText(x) == \E i \in 1..Len(outcome.text) : outcome.text[i] = x

\* the write-class verbs of the query tool
WriteVerbs ==
  { kwINSERT, kwUPDATE, kwDELETE, kwEXEC, kwEXECUTE,
    Two(kwCREATE, kwPROCEDURE), Two(kwALTER, kwPROCEDURE), Two(kwDROP, kwPROCEDURE),
    Two(kwCREATE, kwVIEW), Two(kwALTER, kwVIEW), Two(kwDROP, kwVIEW),
    Two(kwCREATE, kwINDEX), Two(kwDROP, kwINDEX) }

BeginsWithWriteVerb(x) == \E v \in WriteVerbs : StartsWith(Normalized(x), v)

TableVerbs == {Two(kwCREATE, kwTABLE), Two(kwALTER, kwTABLE), Two(kwDROP, kwTABLE)}

(***************************************************************************)
(* C1: query/write sends a statement to the database only if its trimmed,  *)
(* upper-cased text begins with an allowed write-class verb; every other   *)
(* text (SELECT and CREATE/ALTER/DROP TABLE among them) ends in an error   *)
(* outcome with no connection opened and no statement executed.            *)
(***************************************************************************)
C1_WriteQueryAllowlist ==
  (Returned /\ IsCall("query", "write")) =>
     /\ StatementSent => ("sql" \in req.params /\ BeginsWithWriteVerb(req.sql))
     /\ ~BeginsWithWriteVerb(req.sql) =>
          (ErrorOutcome /\ ~ConnectionOpened /\ ~StatementSent)
     /\ (\E v \in TableVerbs \cup {kwSELECT} : StartsWith(Normalized(req.sql), v)) =>
          (ErrorOutcome /\ ~ConnectionOpened /\ ~StatementSent)

C1_Witness ==
  /\ Returned /\ IsCall("query", "write") /\ "sql" \in req.params
  /\ StartsWith(Normalized(req.sql), Two(kwCREATE, kwTABLE))
  /\ req.sql # Normalized(req.sql)
  /\ ErrorOutcome /\ ~ConnectionOpened

(***************************************************************************)
(* C2: query/read with a text that does not start with SELECT after        *)
(* trimming and case-normalizing fails with an error outcome; no           *)
(* connection is opened and nothing is executed.                           *)
(***************************************************************************)
C2_ReadQueryRejectsNonSelect ==
  (Returned /\ IsCall("query", "read") /\ ~StartsWith(Normalized(req.sql), kwSELECT)) =>
     (ErrorOutcome /\ ~ConnectionOpened /\ ~StatementSent)

C2_Witness ==
  /\ Returned /\ IsCall("query", "read") /\ "sql" \in req.params
  /\ StartsWith(Normalized(req.sql), kwDELETE)
  /\ outcome = Out("error", <<"Error: ", "Only SELECT queries are allowed for read_query">>)
  /\ ~ConnectionOpened

(***************************************************************************)
(* Tokens of a statement: the maximal runs of non-whitespace characters    *)
(***************************************************************************)
RECURSIVE LeadingTokens(_, _)
LeadingTokens(s, n) ==
  IF n = 0 \/ LStrip(s) = <<>> THEN <<>>
  ELSE <<TakeWord(LStrip(s))>> \o LeadingTokens(DropWord(LStrip(s)), n - 1)

\* the leading tokens of the trimmed, case-normalized text are the words of verb
TokensAre(x, verb) == LeadingTokens(Normalized(x), Len(verb)) = verb

\* the allowed verbs of each operation that checks a statement class
AllowedVerbs ==
  [ query |-> [ write |->
      { <<kwINSERT>>, <<kwUPDATE>>, <<kwDELETE>>, <<kwEXEC>>, <<kwEXECUTE>>,
        <<kwCREATE, kwPROCEDURE>>, <<kwALTER, kwPROCEDURE>>, <<kwDROP, kwPROCEDURE>>,
        <<kwCREATE, kwVIEW>>, <<kwALTER, kwVIEW>>, <<kwDROP, kwVIEW>>,
        <<kwCREATE, kwINDEX>>, <<kwDROP, kwINDEX>> } ],
    table     |-> [ create |-> { <<kwCREATE, kwTABLE>> } ],
    function  |-> [ create |-> { <<kwCREATE, kwFUNCTION>> },
                    modify |-> { <<kwALTER, kwFUNCTION>> } ],
    procedure |-> [ create |-> { <<kwCREATE, kwPROCEDURE>> },
                    modify |-> { <<kwALTER, kwPROCEDURE>> } ],
    view      |-> [ create |-> { <<kwCREATE, kwVIEW>> },
                    modify |-> { <<kwALTER, kwVIEW>> } ],
    index     |-> [ create |-> { <<kwCREATE, kwINDEX>> } ] ]

ChecksClass(t, a) == t \in DOMAIN AllowedVerbs /\ a \in DOMAIN AllowedVerbs[t]

ScriptPresent == req.params \cap ScriptKeys # {}

(***************************************************************************)
(* C3: for every operation that checks a statement class, a text whose     *)
(* leading tokens (trimmed, case-normalized) are an allowed verb of the    *)
(* operation is accepted and executed, whatever whitespace separates the   *)
(* tokens.                                                                 *)
(***************************************************************************)
C3_AcceptsByTokens ==
  (/\ Returned /\ req.server = "main" /\ ChecksClass(req.name, req.action)
   /\ ScriptPresent
   /\ \E verb \in AllowedVerbs[req.name][req.action] : TokensAre(req.sql, verb))
  => (Has(trace, "classified") /\ (~Has(trace, "connect_error") => StatementSent))

(***************************************************************************)
(* C4: query/read and query/write reject, before execution, a statement    *)
(* whose leading keywords are none of the recognized verbs, also when its  *)
(* first token merely has a recognized verb as a character prefix.         *)
(***************************************************************************)
RecognizedVerbs ==
  { <<kwSELECT>>, <<kwINSERT>>, <<kwUPDATE>>, <<kwDELETE>>, <<kwEXEC>>, <<kwEXECUTE>> }
  \cup { <<v, o>> : v \in Verbs, o \in Objects }

C4_RejectsUnrecognized ==
  (/\ Returned /\ (IsCall("query", "read") \/ IsCall("query", "write"))
   /\ ScriptPresent
   /\ ~\E verb \in RecognizedVerbs : TokensAre(req.sql, verb))
  => (Has(trace, "rejected") /\ ErrorOutcome /\ ~ConnectionOpened /\ ~StatementSent)

(***************************************************************************)
(* C5: table/create, function/create|modify, procedure/create|modify,      *)
(* view/create|modify and index/create execute the script only when it     *)
(* begins with the verb of that operation; otherwise the request ends in   *)
(* an error outcome before a connection is opened or any SQL runs.         *)
(***************************************************************************)
ClassOf ==
  [ table     |-> [ create |-> Two(kwCREATE, kwTABLE) ],
    function  |-> [ create |-> Two(kwCREATE, kwFUNCTION), modify |-> Two(kwALTER, kwFUNCTION) ],
    procedure |-> [ create |-> Two(kwCREATE, kwPROCEDURE), modify |-> Two(kwALTER, kwPROCEDURE) ],
    view      |-> [ create |-> Two(kwCREATE, kwVIEW), modify |-> Two(kwALTER, kwVIEW) ],
    index     |-> [ create |-> Two(kwCREATE, kwINDEX) ] ]

ObjectOperation ==
  req.server = "main" /\ req.name \in DOMAIN ClassOf /\ req.action \in DOMAIN ClassOf[req.name]

C5_ObjectScriptsGated ==
  (Returned /\ ObjectOperation) =>
     LET matches == StartsWith(Normalized(req.sql), ClassOf[req.name][req.action])
     IN  /\ StatementSent => (ScriptPresent /\ matches)
         /\ ~matches => (ErrorOutcome /\ ~ConnectionOpened /\ ~StatementSent)

C5_Witness ==
  /\ Returned /\ IsCall("view", "modify") /\ ScriptPresent
  /\ StartsWith(Normalized(req.sql), Two(kwCREATE, kwVIEW))
  /\ outcome = Out("error", <<"Error: ", "Only ALTER VIEW statements are allowed">>)
  /\ ~ConnectionOpened

(***************************************************************************)
(* C6: no exception leaves call_tool: every request ends Returned with a   *)
(* text outcome, and a failure of dispatch, classification, connection or  *)
(* statement execution yields an error text carrying the exception's       *)
(* description (performance/database_stats, which catches the failure of   *)
(* a section inside the handler, carries it in its report or ends in the   *)
(* error text of a later failure).                                         *)
(***************************************************************************)
SectionedReport == IsCall("performance", "database_stats")

HandlerInvoked == Has(trace, "validated") \/ Has(trace, "_execute_database_operation")

C7_UnknownOperation ==
  (Returned /\ req.server = "main") =>
     /\ ~KnownTool(req.name) =>
          /\ outcome = Out("error", <<"Error: ", "Unknown tool: " \o req.name>>)
          /\ ~HandlerInvoked /\ ~ConnectionOpened
     /\ (KnownTool(req.name) /\ ~KnownAction(req.name, req.action)) =>
          /\ outcome = Out("error", <<"Invalid action for ", req.name, " tool">>)
          /\ ~HandlerInvoked /\ ~ConnectionOpened

C7_Witness ==
  /\ Returned /\ req.server = "main" /\ req.name = "index" /\ req.action = Absent
  /\ outcome = Out("error", <<"Invalid action for ", "index", " tool">>)
  /\ ~ConnectionOpened

(***************************************************************************)
(* C8: a request that omits a parameter its (tool, action) requires ends   *)
(* in an error outcome naming a missing parameter, before any connection   *)
(* is opened.                                                              *)
(***************************************************************************)
C8_MissingParameter ==
  /\ (Returned /\ req.server = "main" /\ KnownAction(req.name, req.action)
        /\ NeedsOf(req.name, req.action) \ req.params # {}) =>
       /\ \E k \in NeedsOf(req.name, req.action) \ req.params :
             outcome = Out("error", <<"Error: ", "'" \o k \o "'">>)
       /\ ~ConnectionOpened
  /\ (Returned /\ req.server = "simplified" /\ req.name = "database") =>
       /\ "sql" \notin req.params =>
            (outcome = Out("error", <<"Error: SQL query is required">>) /\ ~ConnectionOpened)
       /\ ("sql" \in req.params /\ req.sql # <<>> /\ req.action = Absent) =>
            (/\ outcome = Out("error", <<"Error: Operation is required (CREATE, READ, UPDATE, DELETE)">>)
             /\ ~ConnectionOpened)

C8_Witness ==
  /\ Returned /\ IsCall("index", "describe") /\ req.params = {"index_name"}
  /\ outcome = Out("error", <<"Error: ", "'table_name'">>)
  /\ ~ConnectionOpened

(***************************************************************************)
(* C9: when a Write, DDL or Execute operation returns a success outcome,   *)
(* its statement was executed and the transaction committed before the     *)
(* outcome is returned.                                                    *)
(***************************************************************************)
WriteClassHandlers ==
  { "_execute_write_query", "_create_table", "_create_function", "_modify_function",
    "_create_procedure", "_modify_procedure", "_create_view", "_modify_view",
    "_create_index", "_delete_function", "_delete_procedure", "_delete_view",
    "_delete_index", "_execute_procedure" }

WriteClassRequest ==
  \/ /\ req.server = "main" /\ KnownAction(req.name, req.action)
     /\ Routes[req.name][req.action].handler \in WriteClassHandlers
  \/ /\ req.server = "simplified" /\ req.name = "database"
     /\ req.action \in {"CREATE", "UPDATE", "DELETE"}

SuccessOutcome == outcome.variant \in {"status", "tabular"}

CommittedBeforeReturn ==
  \E i, j \in 1..Len(trace) :
     i < j /\ trace[i] \in {"commit", "exit_commit"} /\ trace[j] = "return"

C9_CommitBeforeSuccess ==
  (Returned /\ WriteClassRequest /\ SuccessOutcome) =>
     (StatementSent /\ CommittedBeforeReturn)

C9_Witness ==
  /\ Returned /\ IsCall("procedure", "execute") /\ SuccessOutcome
  /\ raised = NoExc /\ StatementSent /\ ~Has(trace, "commit") /\ CommittedBeforeReturn

(***************************************************************************)
(* C10: when the database raises an error while a Write/DDL/Execute        *)
(* statement is executed or its results are fetched, nothing is committed  *)
(* for the request and its outcome is an error text carrying the driver's  *)
(* message, never a success.                                               *)
(***************************************************************************)
DatabaseErrorRaised == Has(trace, "execute_error") \/ Has(trace, "fetch_error")

C10_DatabaseErrorSurfaces ==
  (Returned /\ WriteClassRequest /\ DatabaseErrorRaised) =>
     /\ ErrorOutcome /\ InText(Str(raised))
     /\ ~Has(trace, "commit") /\ ~Has(trace, "exit_commit")

(***************************************************************************)
(* C11: every connection a handler opened is closed by the time the        *)
(* handler has returned, whether it left by a normal return, by a return   *)
(* from inside the connection scope or by an exception; after any          *)
(* sequence of requests no opened connection is left unclosed.             *)
(***************************************************************************)
HandlerLeft == pc \in {"returned", "propagated"}

C11_ConnectionsClosed ==
  HandlerLeft => \A h \in 1..Len(conns) : conns[h].closed

(***************************************************************************)
(* C12: each request runs on the connection it opened itself: no           *)
(* connection object is used by two requests, none is used again by a      *)
(* later request, and a request that opened a connection owns one.         *)
(***************************************************************************)
C12_OwnConnectionOnly ==
  /\ \A h \in 1..Len(conns) : conns[h].users = {conns[h].owner}
  /\ (HandlerLeft /\ Has(trace, "open")) =>
       \E h \in 1..Len(conns) : conns[h].owner = nreq

C12_Witness ==
  /\ Returned /\ nreq = 2 /\ Len(conns) = 2
  /\ conns[1].owner = 1 /\ ~conns[1].closed
  /\ conns[2].owner = 2 /\ conns[2].users = {2}
  /\ StatementSent

(***************************************************************************)
(* C13: a request produces exactly one outcome variant, a table, a status  *)
(* or an error, never a combination: the returned text never holds both    *)
(* the figures of a step that succeeded and the error text of a step of    *)
(* the same request that failed (performance/database_stats included).     *)
(***************************************************************************)
SectionErrorTexts == {SectionError[k] : k \in DOMAIN SectionError}
SectionFiguresTexts == {SectionFigures[k] : k \in DOMAIN SectionFigures}

HoldsErrorText ==
  \E i \in 1..Len(outcome.text) :
     outcome.text[i] \in SectionErrorTexts \cup {"Error: "}

HoldsFigures ==
  \E i \in 1..Len(outcome.text) : outcome.text[i] \in SectionFiguresTexts

C13_OneVariant ==
  Returned =>
    /\ outcome.variant \in {"tabular", "status", "error"}
    /\ ~(HoldsErrorText /\ HoldsFigures)
    /\ HoldsErrorText => ErrorOutcome

(***************************************************************************)
(* C14: a request passes through its phases in order: it is validated and  *)
(* its statement classified before the connection is opened and the        *)
(* statement executed, and its transaction is committed or rolled back     *)
(* before the text it returns is formatted.                                *)
(***************************************************************************)
FirstAt(evs) == CHOOSE i \in 1..Len(trace) :
                  trace[i] \in evs /\ \A j \in 1..(i - 1) : trace[j] \notin evs
LastAt(evs)  == CHOOSE i \in 1..Len(trace) :
                  trace[i] \in evs /\ \A j \in (i + 1)..Len(trace) : trace[j] \notin evs
Occurs(evs)  == \E i \in 1..Len(trace) : trace[i] \in evs

TransactionEnd == {"commit", "exit_commit", "rollback"}
TextBuilt == {"format", "caught"}

C14_PhasesInOrder ==
  (Returned /\ req.server = "main" /\ ConnectionOpened) =>
    /\ FirstAt({"validated"}) < FirstAt({"connect"})
    /\ Occurs({"classified"}) => FirstAt({"classified"}) < FirstAt({"connect"})
    /\ Has(trace, "open") =>
         (Occurs(TransactionEnd) /\ FirstAt(TransactionEnd) < LastAt(TextBuilt))

(***************************************************************************)
(* Reading a returned text: str.split and str.splitlines, and the field a  *)
(* cell is expected to give                                                *)
(***************************************************************************)
\* s.split(c): the pieces of s between the occurrences of c
SplitOn(s, c) ==
  LET P == {i \in 1..Len(s) : s[i] = c}
      n == Cardinality(P)
      at(k) == CHOOSE i \in P : Cardinality({j \in P : j < i}) = k - 1
      from(k) == IF k = 1 THEN 1 ELSE at(k - 1) + 1
      to(k) == IF k = n + 1 THEN Len(s) ELSE at(k) - 1
  IN  [k \in 1..(n + 1) |-> SubSeq(s, from(k), to(k))]

Lines(s) ==
  LET p == SplitOn(s, "\n")
  IN  IF p[Len(p)] = <<>> THEN SubSeq(p, 1, Len(p) - 1) ELSE p

StringForm(cell) == IF cell.kind = "int" THEN IntStr(cell.int) ELSE cell.str
FieldOf(cell) == IF cell.kind = "null" THEN <<>> ELSE StringForm(cell)
FieldsOf(row) == [j \in 1..Len(row) |-> FieldOf(row[j])]

\* no cell of the rows holds one of the characters
Plain(rows, chars) ==
  \A i \in 1..Len(rows) : \A j \in 1..Len(rows[i]) :
     \A k \in 1..Len(StringForm(rows[i][j])) : StringForm(rows[i][j])[k] \notin chars

Answered == Returned /\ raised = NoExc /\ Has(trace, "fetch")
ReadAnswered == Answered /\ IsCall("query", "read")

(***************************************************************************)
(* C15: a query/read whose SELECT yields an empty result set returns the   *)
(* status text "No results found": not an empty string, not a table of a   *)
(* header line only, not an error.                                         *)
(***************************************************************************)
C15_EmptyResultText ==
  (ReadAnswered /\ db.rows = <<>>) => outcome = Out("status", <<"No results found">>)

C15_Witness ==
  /\ ReadAnswered /\ db.rows = <<>> /\ Len(db.columns) = 2
  /\ outcome = Out("status", <<"No results found">>)

(***************************************************************************)
(* C16 as stated: for every result set of N rows and M columns query/read  *)
(* returns exactly N+1 lines, the first the M column names joined by       *)
(* commas, each following one a row's M values joined by commas.           *)
(***************************************************************************)
IsTableOf(text, columns, rows) ==
  LET L == Lines(text)
  IN  /\ Len(L) = Len(rows) + 1
      /\ L[1] = Join(<<",">>, columns)
      /\ \A i \in 1..Len(rows) : L[i + 1] = Join(<<",">>, FieldsOf(rows[i]))

TableText ==
  IF outcome.text # <<>> /\ Head(outcome.text) = ProcedureResults
  THEN Tail(outcome.text)
  ELSE outcome.text

TabularAnswered == Answered /\ req \in TabularRequests /\ db.rows # <<>>

C17_CellsAsFields ==
  (TabularAnswered /\ Plain(db.rows, {",", "\n"})) =>
     LET L == Lines(TableText)
     IN  /\ outcome.variant = "tabular"
         /\ Len(L) = Len(db.rows) + 1
         /\ \A i \in 1..Len(db.rows) : SplitOn(L[i + 1], ",") = FieldsOf(db.rows[i])

C19_DeleteIsVisible ==
  /\ deleted # NoDelete => db.rows = <<>>
  /\ (ReadAnswered /\ deleted # NoDelete) => outcome = Out("status", <<"No results found">>)
  /\ (Returned /\ IsCall("query", "write") /\ StatementKind(req.sql) = "delete"
        /\ outcome.variant = "status") =>
       outcome.text = <<"Query executed successfully. ">> \o IntStr(deleted) \o <<" rows affected.">>

C19_Witness ==
  /\ ReadAnswered /\ nreq = 2 /\ deleted = 2 /\ Len(conns) = 2
  /\ outcome = Out("status", <<"No results found">>)

(***************************************************************************)
(* C20: a procedure/execute whose call succeeds but yields no rows to      *)
(* fetch (an empty result set, or no result set at all) returns a success  *)
(* status, not an error.                                                   *)
(***************************************************************************)
NothingToFetch ==
  \/ Has(trace, "no_results")
  \/ Has(trace, "fetch") /\ ~Has(trace, "fetch_error") /\ db.rows = <<>>

C20_NoRowsIsSuccess ==
  (/\ Returned /\ IsCall("procedure", "execute")
   /\ StatementSent /\ ~Has(trace, "execute_error") /\ ~Has(trace, "commit_error")
   /\ NothingToFetch)
  => outcome \in { Out("status", <<"Procedure executed successfully.">>),
                   Out("status", <<"Procedure executed successfully. No results returned.">>) }

C20_Witness ==
  /\ Returned /\ IsCall("procedure", "execute") /\ Has(trace, "no_results")
  /\ outcome = Out("status", <<"Procedure executed successfully.">>)
  /\ Has(trace, "exit_commit")

(***************************************************************************)
(* C21: a procedure/execute whose procedure leaves several results reports *)
(* the first result set that has columns, with its header line, also when  *)
(* results without column metadata come before it; it returns a sentence   *)
(* without a table only when that result set has no rows or when no        *)
(* result with columns exists.                                             *)
(***************************************************************************)
Count(ev) == Cardinality({i \in 1..Len(trace) : trace[i] = ev})

NoDriverError ==
  /\ ~Has(trace, "connect_error") /\ ~Has(trace, "execute_error")
  /\ ~Has(trace, "fetch_error") /\ ~Has(trace, "commit_error")

FirstColumnar ==
  IF \E i \in 1..Len(batch) : batch[i] # "count"
  THEN CHOOSE i \in 1..Len(batch) :
         batch[i] # "count" /\ \A j \in 1..(i - 1) : batch[j] = "count"
  ELSE 0

ProcedureSentences ==
  { Out("status", <<"Procedure executed successfully.">>),
    Out("status", <<"Procedure executed successfully. No results returned.">>) }

C21_FirstResultSetReported ==
  (Returned /\ IsCall("procedure", "execute") /\ StatementSent /\ NoDriverError) =>
     IF FirstColumnar # 0 /\ batch[FirstColumnar] = "set" /\ db.rows # <<>>
     THEN outcome = Out("tabular", <<ProcedureResults>> \o CsvData(db.columns, db.rows))
     ELSE outcome \in ProcedureSentences

(***************************************************************************)
(* C22: in performance/blocking_sessions and performance/failed_logins the *)
(* loop over the results ends after at most one nextset() per result, at   *)
(* the first result with column metadata or when none is left; rows are    *)
(* fetched only from a result with column metadata, and when there is      *)
(* none the handler returns its no-data sentence, not an error.            *)
(***************************************************************************)
InRange(m) == 1 <= m /\ m <= MaxMinutes

SkippingCall ==
  \/ IsCall("performance", "blocking_sessions")
  \/ IsCall("performance", "failed_logins") /\ InRange(time_period(req))

NoDataSentences ==
  { Out("status", <<"No current blocking sessions detected.">>),
    Out("status", <<"No failed login events found in the specified time period.">>) }

C22_SkipLoopTerminates ==
  (Returned /\ SkippingCall /\ StatementSent /\ ~Has(trace, "execute_error")) =>
     /\ Count("nextset") = IF FirstColumnar = 0 THEN Len(batch) ELSE FirstColumnar - 1
     /\ Has(trace, "fetch") => FirstColumnar # 0
     /\ ~Has(trace, "no_results")
     /\ (FirstColumnar = 0 /\ ~Has(trace, "commit_error")) =>
          (outcome \in NoDataSentences /\ ~Has(trace, "fetch"))
     /\ (FirstColumnar # 0 /\ NoDriverError) =>
          (outcome \in NoDataSentences <=> batch[FirstColumnar] = "empty")

C22_Witness ==
  /\ Returned /\ IsCall("performance", "failed_logins") /\ batch = <<"count", "count">>
  /\ Count("nextset") = 2 /\ ~Has(trace, "fetch")
  /\ outcome = Out("status", <<"No failed login events found in the specified time period.">>)

(***************************************************************************)
(* C27: in performance/deadlock_graph, when the system_health session      *)
(* exists, deadlock events are counted and the XQuery extraction, the      *)
(* error-log read and the statistics query all fail or yield nothing, the  *)
(* handler returns the "Deadlock detection failed" summary.                *)
(***************************************************************************)
AllApproachesTried ==
  /\ Count("execute") = 5
  /\ {"error_log", "xe_stats"} \subseteq denied

C27_DeadlockSummary ==
  (Returned /\ IsCall("performance", "deadlock_graph") /\ AllApproachesTried) =>
     /\ outcome.variant = "status"
     /\ InText("Deadlock detection failed. Summary:\n- system_health session: ")

(***************************************************************************)
(* C28: performance/failed_logins with time_period_minutes outside         *)
(* 1..43200 returns the validation message without a connection and        *)
(* without any SQL; with a value inside 1..43200 (the default included) a  *)
(* connection is requested and, once open, the batch is executed exactly   *)
(* once.                                                                   *)
(***************************************************************************)
C28_TimePeriodRange ==
  (Returned /\ IsCall("performance", "failed_logins")) =>
     IF InRange(time_period(req))
     THEN /\ ConnectionOpened
          /\ Has(trace, "open") => Count("execute") = 1
     ELSE /\ outcome = Out("error", <<"Please specify a valid time period in minutes (1 to 43200).">>)
          /\ ~ConnectionOpened /\ ~StatementSent

C28_Witness ==
  /\ Returned /\ IsCall("performance", "failed_logins") /\ time_period(req) = MaxMinutes + 1
  /\ outcome = Out("error", <<"Please specify a valid time period in minutes (1 to 43200).">>)
  /\ ~ConnectionOpened

(***************************************************************************)
(* C23: a read of the resource mssql://T/data returns at most 100 data     *)
(* rows of T, in the shape query/read gives a result set: the header line  *)
(* of the column names and one line per row for the first 100 rows (or     *)
(* all rows when there are fewer), a sentence without a header when T has  *)
(* no rows.                                                                *)
(***************************************************************************)
ResourceAnswered == Answered /\ req.server = "resource" /\ req.uri = Uri("mssql", "T")

Shown == [i \in 1..(IF Len(db.rows) < TopRows THEN Len(db.rows) ELSE TopRows) |-> db.rows[i]]

MissingTarget(p) ==
  IF p = "main"
  THEN env.server = "" \/ env.database \in {Absent, ""}
  ELSE env.server = ""

C25_DescriptorUnchanged ==
  [][\A p \in Programs :
       process[p] = "serving" => connection_string'[p] = connection_string[p]]_vars

C25_Witness ==
  /\ Returned /\ nreq = 2 /\ req.server = "simplified"
  /\ Has(trace, "connect_error") /\ ErrorOutcome
  /\ env = DefaultEnv
  /\ connection_string["simplified"] =
       <<"DRIVER=", "{ODBC Driver 18 for SQL Server}", ";SERVER=", "db1", ",", "1433", ";",
         "DATABASE=", "sales", ";", "UID=", "sa", ";PWD=", "pw", ";", "Trusted_Connection=no;",
         "TrustServerCertificate=", "yes", ";">>

(***************************************************************************)
(* C26: the success text of query/write follows the class of the           *)
(* statement: INSERT, UPDATE and DELETE give the affected-row count,       *)
(* procedure DDL, view DDL, index DDL and EXEC/EXECUTE each their own      *)
(* sentence, and an accepted statement gets exactly one of these texts.    *)
(***************************************************************************)
BeginsWithOneOf(x, verbs) == \E v \in verbs : StartsWith(Normalized(x), v)

CountText == {<<"Query executed successfully. ">> \o IntStr(n) \o <<" rows affected.">> : n \in 0..9}

ClassTexts ==
  << [verbs |-> {kwINSERT, kwUPDATE, kwDELETE}, texts |-> CountText],
     [verbs |-> {Two(kwCREATE, kwPROCEDURE), Two(kwALTER, kwPROCEDURE), Two(kwDROP, kwPROCEDURE)},
      texts |-> {<<"Stored procedure operation executed successfully.">>}],
     [verbs |-> {Two(kwCREATE, kwVIEW), Two(kwALTER, kwVIEW), Two(kwDROP, kwVIEW)},
      texts |-> {<<"View operation executed successfully.">>}],
     [verbs |-> {Two(kwCREATE, kwINDEX), Two(kwDROP, kwINDEX)},
      texts |-> {<<"Index operation executed successfully.">>}],
     [verbs |-> {kwEXEC, kwEXECUTE},
      texts |-> {<<"Stored procedure executed successfully.">>}] >>

C26_SuccessTextByClass ==
  (Returned /\ IsCall("query", "write") /\ SuccessOutcome) =>
     /\ \A k \in 1..Len(ClassTexts) :
          BeginsWithOneOf(req.sql, ClassTexts[k].verbs) => outcome.text \in ClassTexts[k].texts
     /\ Cardinality({k \in 1..Len(ClassTexts) : outcome.text \in ClassTexts[k].texts}) = 1
     /\ Cardinality({k \in 1..Len(ClassTexts) : BeginsWithOneOf(req.sql, ClassTexts[k].verbs)}) = 1

C26_Witness ==
  /\ Returned /\ IsCall("query", "write")
  /\ Normalized(req.sql) = Two(kwDROP, kwVIEW) \o <<" ", "T">>
  /\ outcome = Out("status", <<"View operation executed successfully.">>)

(***************************************************************************)
(* C29: a resource listing never ends in an error: when the connection or  *)
(* the catalog query fails it returns the empty list, the listing of a     *)
(* database without tables and views; a resource read whose locator has    *)
(* another scheme than mssql or no table name returns an error text and    *)
(* opens no connection.                                                    *)
(***************************************************************************)
C29_ListingNeverErrors ==
  /\ (Returned /\ req = ListRequest) =>
        /\ outcome.variant = "resources"
        /\ ~NoDriverError => outcome = Out("resources", <<>>)
  /\ (Returned /\ req.server = "resource" /\ req.name = "read_resource") =>
        /\ req.uri.scheme # "mssql" =>
              (outcome = Out("error", <<"Error: ", "Invalid URI scheme">>) /\ ~ConnectionOpened)
        /\ (req.uri.scheme = "mssql" /\ req.uri.netloc = "") =>
              (/\ outcome = Out("error", <<"Error: ", "Table name not specified in URI">>)
               /\ ~ConnectionOpened)

C29_Witness ==
  /\ Returned /\ req = ListRequest /\ Has(trace, "execute_error")
  /\ outcome = Out("resources", <<>>)

(***************************************************************************)
(* C30: the database tool of the simplified server answers a missing or    *)
(* empty sql or operation with an error text and opens no connection; an   *)
(* operation other than CREATE, READ, UPDATE, DELETE gets the              *)
(* invalid-operation error after a connection was opened and without any   *)
(* statement executed; for the four operations the SQL given is executed   *)
(* exactly once, whatever statement it is.                                 *)
(***************************************************************************)
DatabaseToolCall == Returned /\ req.server = "simplified" /\ req.name = "database"

NoSql == "sql" \notin req.params \/ req.sql = <<>>
NoOperation == req.action \in {Absent, ""}

C30_SimplifiedOperations ==
  DatabaseToolCall =>
     /\ NoSql => (outcome = Out("error", <<"Error: SQL query is required">>) /\ ~ConnectionOpened)
     /\ (~NoSql /\ NoOperation) =>
          (/\ outcome = Out("error", <<"Error: Operation is required (CREATE, READ, UPDATE, DELETE)">>)
           /\ ~ConnectionOpened)
     /\ (~NoSql /\ ~NoOperation /\ req.action \notin {"CREATE", "READ", "UPDATE", "DELETE"}) =>
          /\ ConnectionOpened /\ ~StatementSent
          /\ (Has(trace, "open") /\ ~Has(trace, "commit_error")) =>
               outcome = Out("error", <<"Error: Invalid operation '", req.action,
                                        "'. Use CREATE, READ, UPDATE, or DELETE">>)
     /\ (~NoSql /\ ~NoOperation /\ req.action \in {"CREATE", "READ", "UPDATE", "DELETE"}) =>
          /\ ConnectionOpened
          /\ Has(trace, "open") => Count("execute") = 1

C30_Witness ==
  /\ DatabaseToolCall /\ req.action = "UPDATE" /\ StatementKind(req.sql) = "delete"
  /\ Count("execute") = 1 /\ Has(trace, "commit") /\ db.rows = <<>>
  /\ outcome = Out("status", <<"UPDATE", " operation completed successfully.">>)

====
